---- MODULE Spec2Model ----
(***************************************************************************)
(* A model of the iControl REST client: the session (IControlRestClient),  *)
(* its transaction lifecycle, the request dispatcher with its outcome      *)
(* classification, and the reference expander of IControlRestResponse.     *)
(*                                                                         *)
(* JavaScript values are tagged tuples; objects keep their own properties  *)
(* as a sequence of <<key, value>> pairs in insertion order, which is the  *)
(* order for-in and Object.assign visit them in.                           *)
(***************************************************************************)
EXTENDS Integers, Sequences, FiniteSets

VARIABLES
    session,                  \* what the caller holds: nothing yet, the factory's
                              \* {transaction, client} object, or a client made by it
    params,                   \* this.params: the configuration the factory validated
    options,                  \* this.options: the construction-time overlay
    transactionId,            \* this.transactionId
    autoExpandCollections,    \* this._autoExpandCollections
    pending,                  \* transport calls in flight, each with the code awaiting it
    response,                 \* the IControlRestResponse the caller holds (its data)
    expanding,                \* the frame of the running or last expand() call
    last                      \* the last step taken: the call made or the outcome settled

vars == <<session, params, options, transactionId, autoExpandCollections,
          pending, response, expanding, last>>

(***************************************************************************)
(* Bounds                                                                  *)
(***************************************************************************)
MaxInFlight == 2

(***************************************************************************)
(* JavaScript values                                                       *)
(***************************************************************************)
Undefined == <<"undefined">>
Null == <<"null">>
Num(n) == <<"number", n>>
Str(s) == <<"string", s>>
Bool(b) == <<"boolean", b>>
Obj(props) == <<"object", props>>
Client == <<"client">>

TypeOf(v) == v[1]

Truthy(v) ==
    CASE TypeOf(v) = "undefined" -> FALSE
      [] TypeOf(v) = "null" -> FALSE
      [] TypeOf(v) = "number" -> v[2] # 0
      [] TypeOf(v) = "string" -> v[2] # ""
      [] TypeOf(v) = "boolean" -> v[2]
      [] OTHER -> TRUE

Digits == "0123456789"

RECURSIVE NumStr(_)
NumStr(n) ==
    IF n < 10 THEN SubSeq(Digits, n + 1, n + 1)
    ELSE NumStr(n \div 10) \o SubSeq(Digits, (n % 10) + 1, (n % 10) + 1)

\* ToString, as a template literal `${v}` applies it
TemplateString(v) ==
    CASE TypeOf(v) = "undefined" -> "undefined"
      [] TypeOf(v) = "null" -> "null"
      [] TypeOf(v) = "number" -> NumStr(v[2])
      [] TypeOf(v) = "string" -> v[2]
      [] TypeOf(v) = "boolean" -> IF v[2] THEN "true" ELSE "false"
      [] OTHER -> "[object Object]"

Props(o) == IF TypeOf(o) = "object" THEN o[2] ELSE <<>>

\* the keys of an object from the last one added to the first
KeysReversed(o) == [i \in 1..Len(Props(o)) |-> Props(o)[Len(Props(o)) + 1 - i][1]]

\* the keys of an object in the order for-in enumerates them
Keys(o) == [i \in 1..Len(Props(o)) |-> Props(o)[i][1]]

HasOwn(o, k) == \E i \in 1..Len(Props(o)) : Props(o)[i][1] = k

\* o[k] / o.k on a value that is neither undefined nor null
Get(o, k) ==
    IF HasOwn(o, k)
    THEN Props(o)[CHOOSE i \in 1..Len(Props(o)) : Props(o)[i][1] = k][2]
    ELSE Undefined

\* reading a property of undefined or null throws a TypeError
Nullish(v) == TypeOf(v) \in {"undefined", "null"}

\* o[k] = v: an existing property keeps its place, a new one is appended
Put(o, k, v) ==
    IF HasOwn(o, k)
    THEN Obj([i \in 1..Len(Props(o)) |->
                 IF Props(o)[i][1] = k THEN <<k, v>> ELSE Props(o)[i]])
    ELSE Obj(Append(Props(o), <<k, v>>))

RECURSIVE AssignFrom(_, _, _)
AssignFrom(target, source, i) ==
    IF i > Len(Props(source)) THEN target
    ELSE AssignFrom(Put(target, Props(source)[i][1], Props(source)[i][2]), source, i + 1)

\* Object.assign({}, b, a): the properties of a win over those of b
ObjectAssignFirstWins(a, b) == AssignFrom(AssignFrom(Obj(<<>>), b, 1), a, 1)

\* Object.assign({}, a, b)
ObjectAssign(a, b) == AssignFrom(AssignFrom(Obj(<<>>), a, 1), b, 1)

(***************************************************************************)
(* Errors                                                                  *)
(***************************************************************************)
\* new Error(message): an undefined message becomes the empty string
ErrorOf(cls, message, httpStatus) ==
    [cls |-> cls,
     message |-> IF message = Undefined THEN "" ELSE TemplateString(message),
     httpStatus |-> httpStatus]

IControlRestError(p) ==
    ErrorOf("IControlRestError", Get(p, "message"), Get(p, "httpStatus"))

PlainError(msg) == ErrorOf("Error", Str(msg), Undefined)

TypeError == ErrorOf("TypeError", Str("Cannot read property of undefined"), Undefined)

(***************************************************************************)
(* Steps and what they record                                              *)
(***************************************************************************)
\* what the last step did: the method called with its arguments (ev = "call")
\* or the transport outcome handled (ev = "settle"), how its promise or return
\* stands, the request it handed to the transport (sent), the outcome it handled
Event(op, args, ev, result, value, err, sent, outcome) ==
    [op |-> op, args |-> args, ev |-> ev, result |-> result, value |-> value,
     err |-> err, sent |-> sent, outcome |-> outcome]

NoEvent == Event("new", <<>>, "call", "returned", Client, <<>>, <<>>, <<>>)

Returned(op, args, value) == Event(op, args, "call", "returned", value, <<>>, <<>>, <<>>)

Thrown(op, args, err) == Event(op, args, "call", "thrown", Undefined, <<err>>, <<>>, <<>>)

Rejected(op, args, err) ==
    Event(op, args, "call", "rejected", Undefined, <<err>>, <<>>, <<>>)

(***************************************************************************)
(* IControlRestClient                                                      *)
(***************************************************************************)
CoordinationHeader == "X-F5-REST-Coordination-Id"

IsInTransactionMode(tid) == tid # Null

isInTransactionMode == IsInTransactionMode(transactionId)

\* RequestHeaders without the bypass: the header goes out on every request of
\* a session holding an id
RequestHeadersNoBypass(tid, ignoreTransaction) ==
    IF Truthy(tid) THEN Obj(<< <<CoordinationHeader, tid>> >>) ELSE Obj(<<>>)

\* the headers request() builds when this.transactionId is tid
RequestHeaders(tid, ignoreTransaction) ==
    IF Truthy(tid) /\ ignoreTransaction # Bool(TRUE)
    THEN Obj(<< <<CoordinationHeader, tid>> >>)
    ELSE Obj(<<>>)

RequestTimeout == 2000

\* the options request() computes before the overlay is applied
ComputedOptions(tid, reqParams) ==
    LET base == Obj(<< <<"method", Str(reqParams.method)>>,
                       <<"url", Str(TemplateString(Get(params, "url")) \o reqParams.uri)>>,
                       <<"auth", Obj(<< <<"user", Get(params, "user")>>,
                                        <<"pass", Get(params, "pass")>> >>)>>,
                       <<"headers", RequestHeaders(tid, reqParams.ignoreTransaction)>>,
                       <<"timeout", Num(RequestTimeout)>>,
                       <<"json", Bool(TRUE)>>,
                       <<"strictSSL", Get(params, "strict")>> >>)
    IN  IF Truthy(reqParams.data) THEN Put(base, "body", reqParams.data) ELSE base

\* the options request() hands to the transport
RequestOptions(tid, reqParams) == ObjectAssign(ComputedOptions(tid, reqParams), options)

Sent(tid, reqParams) ==
    [params |-> reqParams, options |-> RequestOptions(tid, reqParams)]

ReqParams(method, uri, data, ignoreTransaction) ==
    [method |-> method, uri |-> uri, data |-> data, ignoreTransaction |-> ignoreTransaction]

\* the transport calls in flight: how many each kind of awaiting code has
Awaiters == {"beginTransaction", "commitTransaction", "request", "expand"}

NoneInFlight == [a \in Awaiters |-> 0]

InFlight(p) == p["beginTransaction"] + p["commitTransaction"] + p["request"] + p["expand"]

Add(p, a) == [p EXCEPT ![a] = @ + 1]

Remove(p, a) == [p EXCEPT ![a] = @ - 1]

\* this.request(reqParams) with this.transactionId = tid, called by method op:
\* the transport call is in flight and the code named by cont awaits it
Dispatch(op, args, cont, tid, reqParams) ==
    /\ pending' = Add(pending, cont)
    /\ last' = Event(op, args, "call", "pending", Undefined, <<>>,
                     <<Sent(tid, reqParams)>>, <<>>)

CanDispatch == InFlight(pending) < MaxInFlight

TransIds == {Undefined, Null, Num(7), Num(8)}

setTransactionId(tid) ==
    /\ transactionId' = tid
    /\ last' = Returned("setTransactionId", <<tid>>, Client)
    /\ UNCHANGED <<session, params, options, autoExpandCollections, pending, response, expanding>>

getTransactionId ==
    /\ last' = IF ~isInTransactionMode
               THEN Thrown("getTransactionId", <<>>,
                           PlainError("Bad operation, client is not in transaction mode"))
               ELSE Returned("getTransactionId", <<>>, transactionId)
    /\ UNCHANGED <<session, params, options, transactionId, autoExpandCollections,
                   pending, response, expanding>>

RequestArgs ==
    {ReqParams(m, "/mgmt/tm/ltm/pool", d, ig) :
        m \in {"GET"}, d \in {Undefined}, ig \in {Undefined, Bool(TRUE)}}

request(reqParams) ==
    /\ CanDispatch
    /\ Dispatch("request", <<>>, "request", transactionId, reqParams)
    /\ UNCHANGED <<session, params, options, transactionId, autoExpandCollections,
                   response, expanding>>

beginTransaction ==
    IF isInTransactionMode
    THEN /\ last' = Rejected("beginTransaction", <<>>,
                       PlainError("Bad operation, client is already in transaction mode"))
         /\ UNCHANGED <<session, params, options, transactionId, autoExpandCollections,
                        pending, response, expanding>>
    ELSE /\ CanDispatch
         /\ Dispatch("beginTransaction", <<>>, "beginTransaction", transactionId,
                     ReqParams("POST", "/mgmt/tm/transaction", Obj(<<>>), Undefined))
         /\ UNCHANGED <<session, params, options, transactionId, autoExpandCollections,
                        response, expanding>>

\* commitTransaction without its precondition
commitTransactionUnchecked ==
    /\ CanDispatch
    /\ transactionId' = Null
    /\ Dispatch("commitTransaction", <<>>, "commitTransaction", Null,
                ReqParams("PATCH",
                          "/mgmt/tm/transaction/" \o TemplateString(transactionId),
                          Obj(<< <<"state", Str("VALIDATING")>> >>), Undefined))
    /\ UNCHANGED <<session, params, options, autoExpandCollections, response, expanding>>

\* commitTransaction clearing the session's id only once the server has
\* answered: the PATCH goes out with the id still in place
commitTransactionKeepingId ==
    IF ~isInTransactionMode
    THEN /\ last' = Rejected("commitTransaction", <<>>,
                       PlainError("Bad operation, client is not in transaction mode"))
         /\ UNCHANGED <<session, params, options, transactionId, autoExpandCollections,
                        pending, response, expanding>>
    ELSE /\ CanDispatch
         /\ Dispatch("commitTransaction", <<>>, "commitTransaction", transactionId,
                     ReqParams("PATCH",
                               "/mgmt/tm/transaction/" \o TemplateString(transactionId),
                               Obj(<< <<"state", Str("VALIDATING")>> >>), Undefined))
         /\ UNCHANGED <<session, params, options, transactionId, autoExpandCollections,
                        response, expanding>>

commitTransaction ==
    IF ~isInTransactionMode
    THEN /\ last' = Rejected("commitTransaction", <<>>,
                       PlainError("Bad operation, client is not in transaction mode"))
         /\ UNCHANGED <<session, params, options, transactionId, autoExpandCollections,
                        pending, response, expanding>>
    ELSE /\ CanDispatch
         /\ transactionId' = Null
         /\ Dispatch("commitTransaction", <<>>, "commitTransaction", Null,
                     ReqParams("PATCH",
                               "/mgmt/tm/transaction/" \o TemplateString(transactionId),
                               Obj(<< <<"state", Str("VALIDATING")>> >>), Undefined))
         /\ UNCHANGED <<session, params, options, autoExpandCollections, response, expanding>>

\* rollbackTransaction as the lines commented out in it have it: the session's
\* own transaction, which it leaves
rollbackTransactionOwn(id) ==
    IF ~isInTransactionMode
    THEN /\ last' = Rejected("rollbackTransaction", <<id>>,
                       PlainError("Bad operation, client is not in transaction mode"))
         /\ UNCHANGED <<session, params, options, transactionId, autoExpandCollections,
                        pending, response, expanding>>
    ELSE /\ CanDispatch
         /\ transactionId' = Null
         /\ Dispatch("rollbackTransaction", <<id>>, "request", Null,
                     ReqParams("DELETE",
                               "/mgmt/tm/transaction/" \o TemplateString(transactionId),
                               Undefined, Undefined))
         /\ UNCHANGED <<session, params, options, autoExpandCollections, response, expanding>>

\* rollbackTransaction addressing the session's id in place of its argument
rollbackTransactionIgnoringId(id) ==
    IF isInTransactionMode
    THEN /\ last' = Rejected("rollbackTransaction", <<id>>,
                       PlainError("Bad operation, client is in transaction mode"))
         /\ UNCHANGED <<session, params, options, transactionId, autoExpandCollections,
                        pending, response, expanding>>
    ELSE /\ CanDispatch
         /\ Dispatch("rollbackTransaction", <<id>>, "request", transactionId,
                     ReqParams("DELETE",
                               "/mgmt/tm/transaction/" \o TemplateString(transactionId),
                               Undefined, Undefined))
         /\ UNCHANGED <<session, params, options, transactionId, autoExpandCollections,
                        response, expanding>>

rollbackTransaction(id) ==
    IF isInTransactionMode
    THEN /\ last' = Rejected("rollbackTransaction", <<id>>,
                       PlainError("Bad operation, client is in transaction mode"))
         /\ UNCHANGED <<session, params, options, transactionId, autoExpandCollections,
                        pending, response, expanding>>
    ELSE /\ CanDispatch
         /\ Dispatch("rollbackTransaction", <<id>>, "request", transactionId,
                     ReqParams("DELETE", "/mgmt/tm/transaction/" \o TemplateString(id),
                               Undefined, Undefined))
         /\ UNCHANGED <<session, params, options, transactionId, autoExpandCollections,
                        response, expanding>>

getTransactionCommands ==
    /\ CanDispatch
    /\ Dispatch("getTransactionCommands", <<>>, "request", transactionId,
                ReqParams("GET",
                          "/mgmt/tm/transaction/" \o TemplateString(transactionId)
                              \o "/commands",
                          Undefined, Undefined))
    /\ UNCHANGED <<session, params, options, transactionId, autoExpandCollections,
                   response, expanding>>

autoExpand(b) ==
    /\ autoExpandCollections' = Bool(Truthy(b))
    /\ last' = Returned("autoExpand", <<b>>, Client)
    /\ UNCHANGED <<session, params, options, transactionId, pending, response, expanding>>

\* the resource methods: each builds one request from its arguments.
\* ltmCreateMonitor takes the parent monitor from the last segment of
\* datas.defaultsFrom and rejects, with a string, when there is none
RECURSIVE LastSegment(_)
LastSegment(path) ==
    IF \E i \in 1..Len(path) : SubSeq(path, i, i) = "/"
    THEN LET i == CHOOSE j \in 1..Len(path) :
                      /\ SubSeq(path, j, j) = "/"
                      /\ \A k \in (j + 1)..Len(path) : SubSeq(path, k, k) # "/"
         IN  SubSeq(path, i + 1, Len(path))
    ELSE path

ExpandSubcollections ==
    IF autoExpandCollections = Bool(TRUE)
    THEN "expandSubcollections=true" ELSE "expandSubcollections=false"

Resources ==
    {"ltmCreatePool", "ltmUpdatePool", "ltmGetPool", "ltmGetPoolMembers", "gtmGetVirtual",
     "ltmGetMonitorsByType", "ltmCreateVirtual", "ltmCreateVirtualAddress",
     "ltmCreateMonitor", "ltmUpdateMonitor", "ltmCreatePolicy", "ltmPublishPolicy",
     "ltmCreatePolicyRule", "gtmCreateWideIp", "gtmCreatePool"}

\* the reqParams method m passes to request() for a name and a datas argument
ResourceRequest(m, name, datas) ==
    CASE m = "ltmCreatePool" -> ReqParams("POST", "/mgmt/tm/ltm/pool", datas, Undefined)
      [] m = "ltmUpdatePool" ->
            ReqParams("PATCH", "/mgmt/tm/ltm/pool/" \o name, datas, Undefined)
      [] m = "ltmGetPool" ->
            ReqParams("GET", "/mgmt/tm/ltm/pool/" \o name \o "?" \o ExpandSubcollections,
                      Undefined, Undefined)
      [] m = "ltmGetPoolMembers" ->
            ReqParams("GET", "/mgmt/tm/ltm/pool/" \o name \o "/members?"
                                 \o ExpandSubcollections, Undefined, Undefined)
      [] m = "gtmGetVirtual" ->
            ReqParams("GET", "/mgmt/tm/ltm/virtual/" \o name \o "?" \o ExpandSubcollections,
                      Undefined, Undefined)
      [] m = "ltmGetMonitorsByType" ->
            ReqParams("GET", "/mgmt/tm/ltm/monitor/" \o name \o "?" \o ExpandSubcollections,
                      Undefined, Undefined)
      [] m = "ltmCreateVirtual" -> ReqParams("POST", "/mgmt/tm/ltm/virtual", datas, Undefined)
      [] m = "ltmCreateVirtualAddress" ->
            ReqParams("POST", "/mgmt/tm/ltm/virtual-address", datas, Undefined)
      [] m = "ltmCreateMonitor" ->
            ReqParams("POST",
                      "/mgmt/tm/ltm/monitor/"
                          \o LastSegment(TemplateString(Get(datas, "defaultsFrom"))),
                      datas, Undefined)
      [] m = "ltmUpdateMonitor" ->
            ReqParams("PATCH", "/mgmt/tm/ltm/monitor/http/" \o name, datas, Undefined)
      [] m = "ltmCreatePolicy" -> ReqParams("POST", "/mgmt/tm/ltm/policy", datas, Undefined)
      [] m = "ltmPublishPolicy" ->
            ReqParams("POST", "/mgmt/tm/ltm/policy",
                      Obj(<< <<"command", Str("publish")>>, <<"name", Str(name)>> >>),
                      Undefined)
      [] m = "ltmCreatePolicyRule" ->
            ReqParams("POST", "/mgmt/tm/ltm/policy/" \o name \o "/rules", datas, Undefined)
      [] m = "gtmCreateWideIp" ->
            ReqParams("POST", "/mgmt/tm/gtm/wideip/" \o name, datas, Undefined)
      [] m = "gtmCreatePool" ->
            ReqParams("POST", "/mgmt/tm/gtm/pool/" \o name, datas, Undefined)

ResourceNames == {"a"}

ResourceDatas(m) ==
    IF m = "ltmCreateMonitor"
    THEN {Obj(<< <<"name", Str("a")>> >>),
          Obj(<< <<"name", Str("a")>>, <<"defaultsFrom", Str("/Common/http")>> >>)}
    ELSE {Obj(<< <<"name", Str("a")>> >>)}

resource(m, name, datas) ==
    IF m = "ltmCreateMonitor" /\ ~Truthy(Get(datas, "defaultsFrom"))
    THEN /\ last' = Rejected(m, <<Str(name), datas>>, ErrorOf("string",
                        Str("ltmCreateMonitor requires parent monitor (data.defaultsFrom"),
                        Undefined))
         /\ UNCHANGED <<session, params, options, transactionId, autoExpandCollections,
                        pending, response, expanding>>
    ELSE /\ CanDispatch
         /\ Dispatch(m, <<Str(name), datas>>, "request", transactionId,
                     ResourceRequest(m, name, datas))
         /\ UNCHANGED <<session, params, options, transactionId, autoExpandCollections,
                        response, expanding>>

(***************************************************************************)
(* The transport and the callback request() gives it                       *)
(***************************************************************************)
MessageBody == Obj(<< <<"message", Str("not found")>> >>)

TransactionBody(tid) == Obj(<< <<"transId", tid>>, <<"state", Str("STARTED")>> >>)

PoolLink == "https://localhost/mgmt/tm/ltm/pool/~Common~p1?ver=13.1.1.2"

PoliciesLink == "https://localhost/mgmt/tm/ltm/virtual/~Common~v1/policies?ver=13.1.1.2"

Reference(link) == Obj(<< <<"link", Str(link)>> >>)

\* a virtual server as the API returns it: pool and poolReference side by side
VirtualBody ==
    Obj(<< <<"name", Str("v1")>>,
           <<"pool", Str("/Common/p1")>>,
           <<"poolReference", Reference(PoolLink)>> >>)

\* the parsed bodies a 200 response can carry (Undefined: no body could be parsed)
Bodies ==
    {Undefined, VirtualBody} \cup {TransactionBody(t) : t \in TransIds \ {Undefined}}

\* the responses with another status: created, no content (nothing to parse),
\* and errors with a message, without one, and with no parsed body
ErrorResponses ==
    {<<201, TransactionBody(Num(7))>>, <<204, Undefined>>, <<404, MessageBody>>,
     <<404, Obj(<< <<"code", Num(1)>> >>)>>, <<401, Undefined>>}

TransportError == Obj(<< <<"message", Str("ETIMEDOUT")>> >>)

\* what the transport passes to the callback: (e, r, obj)
Outcome(e, statusCode, body) == [e |-> e, statusCode |-> statusCode, body |-> body]

Outcomes ==
    {Outcome(TransportError, Undefined, Undefined)}
    \cup {Outcome(Null, Num(200), b) : b \in Bodies}
    \cup {Outcome(Null, Num(r[1]), r[2]) : r \in ErrorResponses}

Settled(result, value, err) == [result |-> result, value |-> value, err |-> err]

\* the callback of request(): how the promise of request() ends for an outcome.
\* "uncaught": the callback itself threw, the promise is never settled
Classify(o) ==
    IF Truthy(o.e)
    THEN Settled("rejected", Undefined,
                 <<IControlRestError(Obj(<< <<"message", Get(o.e, "message")>> >>))>>)
    ELSE IF Truthy(o.statusCode) /\ o.statusCode # Num(200)
    THEN IF Nullish(o.body)
         THEN Settled("uncaught", Undefined, <<TypeError>>)
         ELSE Settled("rejected", Undefined,
                      <<IControlRestError(Obj(<< <<"message", Get(o.body, "message")>>,
                                                 <<"httpStatus", o.statusCode>> >>))>>)
    ELSE Settled("resolved", o.body, <<>>)

(***************************************************************************)
(* IControlRestResponse                                                    *)
(***************************************************************************)
NoResponse == <<"none">>

ReferenceSuffix == "Reference"

EndsWith(s, suffix) ==
    /\ Len(s) >= Len(suffix)
    /\ SubSeq(s, Len(s) - Len(suffix) + 1, Len(s)) = suffix

\* key.substr(0, key.length - "Reference".length)
StripSuffix(key) == SubSeq(key, 1, Len(key) - Len(ReferenceSuffix))

\* the least index at or after from where s holds one of the characters, or 0
IndexOfAny(s, chars, from) ==
    IF \E i \in from..Len(s) : SubSeq(s, i, i) \in chars
    THEN CHOOSE i \in from..Len(s) :
             /\ SubSeq(s, i, i) \in chars
             /\ \A j \in from..(i - 1) : SubSeq(s, j, j) \notin chars
    ELSE 0

\* urlmod.parse(link, true) of an absolute link: the path after the host up to
\* the query, and the query with its "?" (null when the link has none)
UrlParse(link) ==
    LET colon == IndexOfAny(link, {":"}, 1)
        slash == IndexOfAny(link, {"/", "?", "#"}, colon + 3)
        rest == IF slash = 0 THEN "" ELSE SubSeq(link, slash, Len(link))
        hash == IndexOfAny(rest, {"#"}, 1)
        nohash == IF hash = 0 THEN rest ELSE SubSeq(rest, 1, hash - 1)
        query == IndexOfAny(nohash, {"?"}, 1)
        path == IF query = 0 THEN nohash ELSE SubSeq(nohash, 1, query - 1)
    IN  [pathname |-> Str(IF path = "" THEN "/" ELSE path),
         search |-> IF query = 0 THEN Null ELSE Str(SubSeq(nohash, query, Len(nohash)))]

\* `${url.pathname}${url.search}`
ReferenceUri(link) ==
    TemplateString(UrlParse(link).pathname) \o TemplateString(UrlParse(link).search)

\* the test expand() makes on a key of data, reading the value from this.data
IsExpandable(thisData, key) ==
    /\ EndsWith(key, ReferenceSuffix)
    /\ Truthy(Get(thisData, key))
    /\ Get(Get(thisData, key), "link") # Undefined

\* the frame of an expand() call: where it stands (pc), its argument, whether
\* data is this.data itself (alias) or the argument (data), the keys for-in
\* enumerates and the one it is at (i); and, of what it did, the payload as
\* it was given (before) and the URIs fetched with the bodies received (gets)
Idle ==
    [pc |-> "idle", args |-> <<>>, alias |-> TRUE, data |-> Undefined, keys |-> <<>>,
     i |-> 0, gets |-> <<>>, before |-> Undefined]

\* the for-in loop of expand() from the i-th key on, up to its next await:
\* the index of the key whose reference it fetches, 0 when the loop ends,
\* -1 when reading this.data[key] throws
RECURSIVE NextReference(_, _, _)
NextReference(thisData, keys, i) ==
    IF i > Len(keys) THEN 0
    ELSE IF Nullish(thisData) THEN -1
    ELSE IF IsExpandable(thisData, keys[i])
    THEN IF TypeOf(Get(Get(thisData, keys[i]), "link")) = "string" THEN i ELSE -1
    ELSE NextReference(thisData, keys, i + 1)

\* expand() running on from key i: frame f, this.data = thisData, the transport
\* calls in flight besides its own being rest
RunExpand(f, thisData, rest, ev, outcome) ==
    LET n == NextReference(thisData, f.keys, f.i)
        uri == ReferenceUri(Get(Get(thisData, f.keys[n]), "link")[2])
        req == ReqParams("GET", uri, Undefined, Bool(TRUE))
    IN  /\ response' = thisData
        /\ IF n > 0
           THEN /\ InFlight(rest) < MaxInFlight
                /\ pending' = Add(rest, "expand")
                /\ expanding' = [f EXCEPT !.pc = "await", !.i = n,
                                          !.gets = Append(f.gets, <<uri>>)]
                /\ last' = Event("expand", f.args, ev, "pending", Undefined, <<>>,
                                 <<Sent(transactionId, req)>>, outcome)
           ELSE IF n = 0
           THEN /\ pending' = rest
                /\ expanding' = [f EXCEPT !.pc = "done", !.i = Len(f.keys) + 1]
                /\ last' = Event("expand", f.args, ev, "resolved", Undefined, <<>>, <<>>,
                                 outcome)
           ELSE /\ pending' = rest
                /\ expanding' = [f EXCEPT !.pc = "failed"]
                /\ last' = Event("expand", f.args, ev, "rejected", Undefined, <<TypeError>>,
                                 <<>>, outcome)

\* response.expand(arg), for the response the caller holds, once per response
expand(arg) ==
    /\ response # NoResponse
    /\ expanding.pc = "idle"
    /\ LET data == IF Truthy(arg) THEN arg ELSE response
           f == [Idle EXCEPT !.args = <<arg>>, !.alias = ~Truthy(arg),
                             !.data = IF Truthy(arg) THEN arg ELSE Undefined,
                             !.keys = Keys(data), !.i = 1, !.before = data]
       IN  RunExpand(f, response, pending, "call", <<>>)
    /\ UNCHANGED <<session, params, options, transactionId, autoExpandCollections>>

\* expand() after its await
SettleExpand(rest, o) ==
    LET c == Classify(o)
        newKey == StripSuffix(expanding.keys[expanding.i])
        f == [expanding EXCEPT !.i = expanding.i + 1,
                               !.gets[Len(expanding.gets)] = Append(@, c.value),
                               !.data = IF expanding.alias THEN Undefined
                                        ELSE Put(expanding.data, newKey, c.value)]
        thisData == IF expanding.alias THEN Put(response, newKey, c.value) ELSE response
    IN  IF c.result = "resolved"
        THEN /\ RunExpand(f, thisData, rest, "settle", <<o>>)
             /\ UNCHANGED transactionId
        ELSE /\ pending' = rest
             /\ expanding' = [expanding EXCEPT
                                 !.pc = IF c.result = "rejected" THEN "failed" ELSE "stalled"]
             /\ last' = Event("expand", expanding.args, "settle", c.result, c.value, c.err,
                             <<>>, <<o>>)
             /\ UNCHANGED <<transactionId, response>>

\* the caller keeps the response of a resource it may expand, in place of the
\* one it held, unless expand() is running on that one
Keeps(data) == TypeOf(data) = "object" /\ \E i \in 1..Len(Keys(data)) :
                   EndsWith(Keys(data)[i], ReferenceSuffix)

\* the promise returned by request() is the one the method returned
SettleRequest(op, rest, o) ==
    LET c == Classify(o) IN
    /\ pending' = rest
    /\ last' = Event(op, <<>>, "settle", c.result, c.value, c.err, <<>>, <<o>>)
    /\ IF c.result = "resolved" /\ Keeps(c.value) /\ expanding.pc # "await"
       THEN response' = c.value /\ expanding' = Idle
       ELSE UNCHANGED <<response, expanding>>
    /\ UNCHANGED transactionId

\* beginTransaction after its await, were it to keep an id the session
\* already holds
SettleBeginKeepingFirst(rest, o) ==
    LET c == Classify(o) IN
    /\ pending' = rest
    /\ IF c.result = "resolved"
       THEN IF Nullish(c.value)
            THEN /\ last' = Event("beginTransaction", <<>>, "settle", "rejected", Undefined,
                                  <<TypeError>>, <<>>, <<o>>)
                 /\ UNCHANGED transactionId
            ELSE /\ transactionId' = IF isInTransactionMode THEN transactionId
                                     ELSE Get(c.value, "transId")
                 /\ last' = Event("beginTransaction", <<>>, "settle", "resolved", Client,
                                  <<>>, <<>>, <<o>>)
       ELSE /\ last' = Event("beginTransaction", <<>>, "settle", c.result, c.value, c.err,
                             <<>>, <<o>>)
            /\ UNCHANGED transactionId
    /\ UNCHANGED <<response, expanding>>

\* beginTransaction after its await
SettleBegin(rest, o) ==
    LET c == Classify(o) IN
    /\ pending' = rest
    /\ IF c.result = "resolved"
       THEN IF Nullish(c.value)
            THEN /\ last' = Event("beginTransaction", <<>>, "settle", "rejected", Undefined,
                                  <<TypeError>>, <<>>, <<o>>)
                 /\ UNCHANGED transactionId
            ELSE /\ transactionId' = Get(c.value, "transId")
                 /\ last' = Event("beginTransaction", <<>>, "settle", "resolved", Client,
                                  <<>>, <<>>, <<o>>)
       ELSE /\ last' = Event("beginTransaction", <<>>, "settle", c.result, c.value, c.err,
                             <<>>, <<o>>)
            /\ UNCHANGED transactionId
    /\ UNCHANGED <<response, expanding>>

\* the transport calls back for a call in flight, awaited by a
Deliver(a, o) ==
    /\ pending[a] > 0
    /\ CASE a = "beginTransaction" -> SettleBegin(Remove(pending, a), o)
         [] a = "expand" -> SettleExpand(Remove(pending, a), o)
         [] OTHER -> SettleRequest(a, Remove(pending, a), o)
    /\ UNCHANGED <<session, params, options, autoExpandCollections>>

(***************************************************************************)
(* The specification                                                       *)
(***************************************************************************)
\* a configuration as the factory leaves it once it has accepted it
Params ==
    Obj(<< <<"url", Str("https://bigip.example.com")>>, <<"user", Str("admin")>>,
           <<"pass", Str("secret")>>, <<"strict", Bool(FALSE)>>, <<"logger", Null>> >>)

Overlays == {Obj(<<>>), Obj(<< <<"headers", Obj(<< <<"Accept", Str("*/*")>> >>)>> >>)}

Init ==
    /\ session = "client"
    /\ params = Params
    /\ options \in Overlays
    /\ transactionId = Null
    /\ autoExpandCollections = Undefined
    /\ pending = NoneInFlight
    /\ response = NoResponse
    /\ expanding = Idle
    /\ last = NoEvent

Next ==
    \/ \E tid \in TransIds : setTransactionId(tid)
    \/ getTransactionId
    \/ \E r \in RequestArgs : request(r)
    \/ beginTransaction
    \/ commitTransaction
    \/ \E id \in {Num(7), Num(8)} : rollbackTransaction(id)
    \/ getTransactionCommands
    \/ \E b \in {Bool(TRUE), Bool(FALSE)} : autoExpand(b)
    \/ \E m \in Resources, name \in ResourceNames :
          \E datas \in ResourceDatas(m) : resource(m, name, datas)
    \/ expand(Undefined)
    \/ \E a \in Awaiters, o \in Outcomes : Deliver(a, o)

Spec == Init /\ [][Next]_vars

\* expand() on its own: the caller holds a response received earlier, on a
\* session in any transaction state, and expands it or a payload of its own
TwoReferences ==
    Obj(<< <<"kind", Str("tm:ltm:virtual:virtualstate")>>,
           <<"poolReference", Reference(PoolLink)>>,
           <<"policiesReference", Reference(PoliciesLink)>>,
           <<"profilesReference", Obj(<< <<"isSubcollection", Bool(TRUE)>> >>)>> >>)

ExpandResponses == {VirtualBody, TwoReferences}

ExpandArgs ==
    {Undefined, TwoReferences, Obj(<< <<"policiesReference", Reference(PoliciesLink)>> >>)}

InitExpand ==
    /\ session = "client"
    /\ params = Params
    /\ options \in Overlays
    /\ transactionId \in TransIds
    /\ autoExpandCollections = Undefined
    /\ pending = NoneInFlight
    /\ response \in ExpandResponses
    /\ expanding = Idle
    /\ last = NoEvent

NextExpand ==
    \/ \E arg \in ExpandArgs : expand(arg)
    \/ \E o \in Outcomes : Deliver("expand", o)

SpecExpand == InitExpand /\ [][NextExpand]_vars

(***************************************************************************)
(* The factory: iControlRest(params) and the object it returns             *)
(***************************************************************************)
LowerCase == "abcdefghijklmnopqrstuvwxyz"

Letters == {SubSeq(LowerCase, i, i) : i \in 1..Len(LowerCase)}

HostCharacters == Letters \cup {SubSeq(Digits, i, i) : i \in 1..Len(Digits)} \cup {"-", "."}

\* the least index where sub starts in s, or 0
IndexOf(s, sub) ==
    IF \E i \in 1..(Len(s) - Len(sub) + 1) : SubSeq(s, i, i + Len(sub) - 1) = sub
    THEN CHOOSE i \in 1..(Len(s) - Len(sub) + 1) :
             /\ SubSeq(s, i, i + Len(sub) - 1) = sub
             /\ \A j \in 1..(i - 1) : SubSeq(s, j, j + Len(sub) - 1) # sub
    ELSE 0

\* a domain name with a top-level domain: labels of letters, digits and "-",
\* none empty, the last one of two letters or more
IsFQDN(host) ==
    /\ host # ""
    /\ \A i \in 1..Len(host) : SubSeq(host, i, i) \in HostCharacters
    /\ SubSeq(host, 1, 1) # "." /\ SubSeq(host, Len(host), Len(host)) # "."
    /\ IndexOf(host, "..") = 0
    /\ \E d \in 2..(Len(host) - 2) :
          /\ SubSeq(host, d, d) = "."
          /\ \A i \in (d + 1)..Len(host) : SubSeq(host, i, i) \in Letters

Protocols == {"http", "https", "ftp"}

\* validator.isURL(str) with its default options, for a string without user
\* info or port: no blank or angle bracket; the protocol, when there is one, is
\* http, https or ftp (none is required); the host, up to the first "/", "?"
\* or "#", is a domain name with a top-level domain
IsURL(str) ==
    /\ str # ""
    /\ \A i \in 1..Len(str) : SubSeq(str, i, i) \notin {" ", "<", ">"}
    /\ LET sep == IndexOf(str, "://")
           rest == IF sep > 0 THEN SubSeq(str, sep + 3, Len(str)) ELSE str
           end == IndexOfAny(rest, {"/", "?", "#"}, 1)
           host == IF end = 0 THEN rest ELSE SubSeq(rest, 1, end - 1)
       IN  /\ sep > 0 => SubSeq(str, 1, sep - 1) \in Protocols
           /\ IsFQDN(host)

\* the checks of the required params with user and pass looked at first
CheckRequiredParamsCredentialsFirst(p) ==
    IF Get(p, "user") = Undefined THEN "Bad params, user is required"
    ELSE IF Get(p, "pass") = Undefined THEN "Bad params, pass is required"
    ELSE IF Get(p, "url") = Undefined THEN "Bad params, url is missing"
    ELSE IF ~IsURL(Get(p, "url")[2]) THEN "Bad params, url is invalid"
    ELSE IF EndsWith(Get(p, "url")[2], "/") THEN "Bad params, url can NOT end with a /"
    ELSE ""

\* the checks of the required params: the message of the error the factory
\* throws for p, "" when it throws none
CheckRequiredParams(p) ==
    IF Get(p, "url") = Undefined THEN "Bad params, url is missing"
    ELSE IF ~IsURL(Get(p, "url")[2]) THEN "Bad params, url is invalid"
    ELSE IF EndsWith(Get(p, "url")[2], "/") THEN "Bad params, url can NOT end with a /"
    ELSE IF Get(p, "user") = Undefined THEN "Bad params, user is required"
    ELSE IF Get(p, "pass") = Undefined THEN "Bad params, pass is required"
    ELSE ""

\* the default values the factory sets on params for the optional ones
DefaultValues(p) ==
    Put(Put(p, "strict", Bool(Truthy(Get(p, "strict")))),
        "logger", IF Truthy(Get(p, "logger")) THEN Get(p, "logger") ELSE Null)

\* what the factory returns: { transaction, client }
Api == <<"api">>

\* the module is loaded and the factory not called yet
Loaded == Returned("require", <<>>, Undefined)

\* iControlRest(params), params being the configuration of the caller
iControlRest ==
    /\ session = "none"
    /\ LET p == IF Truthy(params) THEN params ELSE Obj(<<>>)
           message == CheckRequiredParams(p)
       IN  IF message # ""
           THEN /\ last' = Thrown("iControlRest", <<params>>, PlainError(message))
                /\ UNCHANGED <<session, params>>
           ELSE /\ params' = DefaultValues(p)
                /\ session' = "factory"
                /\ last' = Returned("iControlRest", <<params>>, Api)
    /\ UNCHANGED <<options, transactionId, autoExpandCollections, pending, response,
                   expanding>>

\* client(options) of the object the factory returned
client(opts) ==
    /\ session = "factory"
    /\ session' = "client"
    /\ options' = IF Truthy(opts) THEN opts ELSE Obj(<<>>)
    /\ transactionId' = Null
    /\ last' = Returned("client", <<opts>>, Client)
    /\ UNCHANGED <<params, autoExpandCollections, pending, response, expanding>>

\* transaction() of the object the factory returned: this.client() and, on the
\* new client, beginTransaction() up to its await
transaction ==
    /\ session = "factory"
    /\ CanDispatch
    /\ session' = "client"
    /\ options' = Obj(<<>>)
    /\ transactionId' = Null
    /\ pending' = Add(pending, "beginTransaction")
    /\ LET req == ReqParams("POST", "/mgmt/tm/transaction", Obj(<<>>), Undefined)
       IN  last' = Event("transaction", <<>>, "call", "pending", Undefined, <<>>,
                         <<[params |-> req,
                            options |-> ObjectAssign(ComputedOptions(Null, req), Obj(<<>>))]>>,
                         <<>>)
    /\ UNCHANGED <<params, autoExpandCollections, response, expanding>>

\* the configurations callers give the factory: none, or an object with any
\* of url, user, pass and strict
Field(k, v) == IF v = Undefined THEN <<>> ELSE << <<k, v>> >>

Urls ==
    {Undefined, Str("not a url/"), Str("https://bigip.example.com/"),
     Str("https://bigip.example.com"), Str("bigip.example.com")}

Credentials(s) == {Undefined, Str(s), Str("")}

Configs ==
    {Undefined}
    \cup {Obj(Field("url", url) \o Field("user", user) \o Field("pass", pass)
                  \o Field("strict", strict)) :
             url \in Urls, user \in Credentials("admin"), pass \in Credentials("secret"),
             strict \in {Undefined, Bool(TRUE)}}

InitFactory ==
    /\ session = "none"
    /\ params \in Configs
    /\ options = Undefined
    /\ transactionId = Undefined
    /\ autoExpandCollections = Undefined
    /\ pending = NoneInFlight
    /\ response = NoResponse
    /\ expanding = Idle
    /\ last = Loaded

NextFactory ==
    \/ iControlRest
    \/ \E opts \in {Undefined} \cup Overlays : client(opts)
    \/ transaction
    \/ \E o \in Outcomes : Deliver("beginTransaction", o)

SpecFactory == InitFactory /\ [][NextFactory]_vars

\* request() under the options a client can be constructed with: overlays that
\* replace computed options (headers, method and url, timeout) and that add one
\* (proxy), on a session whose id is set and whose requests may carry data
WideOverlays ==
    Overlays
    \cup {Obj(<< <<"timeout", Num(5000)>>, <<"proxy", Str("http://proxy.example.com")>> >>),
          Obj(<< <<"method", Str("HEAD")>>,
                 <<"url", Str("https://other.example.com/")>> >>)}

OverlayRequestArgs ==
    {ReqParams("GET", "/mgmt/tm/ltm/pool", Undefined, ig) : ig \in {Undefined, Bool(TRUE)}}
    \cup {ReqParams("POST", "/mgmt/tm/ltm/pool", Obj(<< <<"name", Str("a")>> >>), Undefined)}

InitOverlay ==
    /\ session = "client"
    /\ params = Params
    /\ options \in WideOverlays
    /\ transactionId = Null
    /\ autoExpandCollections = Undefined
    /\ pending = NoneInFlight
    /\ response = NoResponse
    /\ expanding = Idle
    /\ last = NoEvent

NextOverlay ==
    \/ \E tid \in TransIds : setTransactionId(tid)
    \/ \E r \in OverlayRequestArgs : request(r)
    \/ \E o \in Outcomes : Deliver("request", o)

SpecOverlay == InitOverlay /\ [][NextOverlay]_vars

(***************************************************************************)
(* Properties                                                              *)
(***************************************************************************)
\* the last step handed a request to the transport
Issued == last.sent # <<>>

\* the descriptor request() was called with, and the options the transport got
IssuedParams == last.sent[1].params

IssuedOptions == last.sent[1].options

CarriesCoordinationHeader == HasOwn(Get(IssuedOptions, "headers"), CoordinationHeader)

EmptyOverlay == options = Obj(<<>>)

\* A step that issues a request changes this.transactionId, if at all, before
\* it builds the request (commitTransaction), so in the state it leads to
\* transactionId is the id the session held when the request was built.

\* C1: with an empty overlay, a request issued while isInTransactionMode() is
\* true and without ignoreTransaction: true carries the coordination header,
\* and its value is the session's transaction id.
C1_HeaderWheneverInTransactionMode ==
    (Issued /\ EmptyOverlay /\ isInTransactionMode
        /\ IssuedParams.ignoreTransaction # Bool(TRUE))
    => (CarriesCoordinationHeader
        /\ Get(Get(IssuedOptions, "headers"), CoordinationHeader) = transactionId)

\* C2: with an empty overlay, a request issued with ignoreTransaction: true, or
\* while the session is not in transaction mode, carries no coordination
\* header; the GETs of expand() never carry it, whatever the session's state.
C2_NoHeaderOnBypassOrInactive ==
    (Issued /\ EmptyOverlay)
    => /\ (IssuedParams.ignoreTransaction = Bool(TRUE) \/ ~isInTransactionMode)
              => ~CarriesCoordinationHeader
       /\ last.op = "expand" => ~CarriesCoordinationHeader

\* C2 witness: expand() fetched a reference on a session with an empty overlay
\* that holds a transaction id a plain request would send
C2_ExpandFetchedWhileActive ==
    /\ Issued /\ EmptyOverlay
    /\ last.op = "expand"
    /\ IssuedParams.method = "GET"
    /\ Truthy(transactionId)

\* an id as it reads in a URI
IdText(id) ==
    CASE id = Num(7) -> "7"
      [] id = Num(8) -> "8"
      [] id = Undefined -> "undefined"
      [] id = Null -> "null"

CalledNow(op) == last'.op = op /\ last'.ev = "call"

NoLifecycleCallInFlight ==
    pending["beginTransaction"] = 0 /\ pending["commitTransaction"] = 0

BeginJustSucceeded ==
    last.op = "beginTransaction" /\ last.ev = "settle" /\ last.result = "resolved"

\* C3: a beginTransaction called right after a beginTransaction has succeeded,
\* no lifecycle call being in flight, is rejected with "already in transaction
\* mode", issues no request, and leaves the session in transaction mode with
\* the id the creation response carried.
C3_SecondBeginFails ==
    [][(BeginJustSucceeded /\ NoLifecycleCallInFlight /\ CalledNow("beginTransaction"))
       => /\ last'.result = "rejected"
          /\ last'.err[1].message = "Bad operation, client is already in transaction mode"
          /\ last'.sent = <<>>
          /\ pending' = pending
          /\ transactionId' = transactionId
          /\ transactionId' # Null
          /\ transactionId' = Get(last.outcome[1].body, "transId")]_vars

\* C4: commitTransaction called on a session that is not in transaction mode
\* is rejected with "not in transaction mode", issues no request, and leaves
\* the session out of transaction mode.
C4_CommitWhileInactiveFails ==
    [][(transactionId = Null /\ CalledNow("commitTransaction"))
       => /\ last'.result = "rejected"
          /\ last'.err[1].cls = "Error"
          /\ last'.err[1].message = "Bad operation, client is not in transaction mode"
          /\ last'.sent = <<>>
          /\ pending' = pending
          /\ transactionId' = Null]_vars

\* C4 witness: a commitTransaction was called out of transaction mode
C4_CommitRejected ==
    /\ last.op = "commitTransaction" /\ last.ev = "call"
    /\ last.result = "rejected"
    /\ transactionId = Null

\* C5: in begin, resource operation, commit on a session with an empty overlay:
\* the resource operation's request carries the coordination header with the id
\* the creation response carried; commitTransaction has cleared the session's
\* id when its PATCH is built, the PATCH goes to /mgmt/tm/transaction/{id} for
\* the id held before, and carries no coordination header.
C5_BeginResourceCommit ==
    /\ [][(BeginJustSucceeded /\ isInTransactionMode /\ EmptyOverlay
              /\ NoLifecycleCallInFlight /\ last'.op \in Resources /\ last'.ev = "call" /\ last'.sent # <<>>)
          => /\ HasOwn(Get(last'.sent[1].options, "headers"), CoordinationHeader)
             /\ Get(Get(last'.sent[1].options, "headers"), CoordinationHeader)
                    = Get(last.outcome[1].body, "transId")]_vars
    /\ [][(last.op \in Resources /\ last.ev = "call" /\ last.sent # <<>> /\ EmptyOverlay
              /\ isInTransactionMode /\ CalledNow("commitTransaction"))
          => /\ transactionId' = Null
             /\ Len(last'.sent) = 1
             /\ last'.sent[1].params.method = "PATCH"
             /\ last'.sent[1].params.uri = "/mgmt/tm/transaction/" \o IdText(transactionId)
             /\ ~HasOwn(Get(last'.sent[1].options, "headers"), CoordinationHeader)]_vars

\* C6: rollbackTransaction(id) called in transaction mode is rejected with "in
\* transaction mode" and issues no request; called out of it, it issues one
\* request, a DELETE of /mgmt/tm/transaction/{id} for the id given; either way
\* the session's transaction id is left as it was.
C6_RollbackPreconditionAndTarget ==
    [][CalledNow("rollbackTransaction")
       => /\ transactionId' = transactionId
          /\ IF transactionId # Null
             THEN /\ last'.result = "rejected"
                  /\ last'.err[1].cls = "Error"
                  /\ last'.err[1].message = "Bad operation, client is in transaction mode"
                  /\ last'.sent = <<>>
                  /\ pending' = pending
             ELSE /\ last'.result = "pending"
                  /\ Len(last'.sent) = 1
                  /\ InFlight(pending') = InFlight(pending) + 1
                  /\ last'.sent[1].params.method = "DELETE"
                  /\ last'.sent[1].params.uri
                         = "/mgmt/tm/transaction/" \o IdText(last'.args[1])
                  /\ ~HasOwn(options, "method")
                         => Get(last'.sent[1].options, "method") = Str("DELETE")
                  /\ ~HasOwn(options, "url")
                         => Get(last'.sent[1].options, "url")
                                = Str("https://bigip.example.com/mgmt/tm/transaction/"
                                          \o IdText(last'.args[1]))]_vars

\* C6 witness: a rollbackTransaction called out of transaction mode sent its DELETE
C6_RollbackDispatched ==
    /\ last.op = "rollbackTransaction" /\ last.ev = "call"
    /\ Issued
    /\ IssuedParams.method = "DELETE"

\* C7: request() ends, for every outcome of the transport, in the first of
\* three ways that applies: an error and no response, rejected with the
\* error's message and no status; a status other than 200, rejected with that
\* status and the body's message; status 200, resolved with the parsed body.
C7_ThreeWayClassification ==
    (last.ev = "settle" /\ last.op = "request")
    => LET o == last.outcome[1] IN
       IF o.e # Null
       THEN /\ last.result = "rejected"
            /\ last.err[1].message = "ETIMEDOUT"
            /\ last.err[1].httpStatus = Undefined
       ELSE IF o.statusCode # Num(200)
       THEN /\ last.result = "rejected"
            /\ last.err[1].httpStatus = o.statusCode
            /\ last.err[1].message
                   = IF HasOwn(o.body, "message") THEN Get(o.body, "message")[2] ELSE ""
       ELSE /\ last.result = "resolved"
            /\ last.value = o.body

\* C9, as claimed: only beginTransaction and commitTransaction change the
\* session's transaction id.
C9_OnlyBeginAndCommitChangeIt ==
    [][transactionId' # transactionId
       => last'.op \in {"beginTransaction", "commitTransaction"}]_vars

\* C9, amended: only beginTransaction, commitTransaction and setTransactionId
\* change the session's transaction id; request, rollbackTransaction,
\* getTransactionCommands, getTransactionId, autoExpand, the resource methods
\* and expand() leave it as it was.
C9_OnlyBeginCommitAndSetChangeIt ==
    [][transactionId' # transactionId
       => last'.op \in {"beginTransaction", "commitTransaction", "setTransactionId"}]_vars

\* C9 witness: expand() fetched a reference on a session in transaction mode
\* and went on, the session's id still in place
C9_ExpandSettledInTransactionMode ==
    /\ last.op = "expand" /\ last.ev = "settle"
    /\ last.result = "resolved"
    /\ Truthy(transactionId)

\* the payload expand() was given, as it stands now
Expanded == IF expanding.alias THEN response ELSE expanding.data

\* a top-level field of payload that is a reference: its name ends in
\* "Reference" and its value is an object with a link
IsReferenceField(payload, k) ==
    /\ k \in {"poolReference", "policiesReference", "profilesReference"}
    /\ TypeOf(Get(payload, k)) = "object"
    /\ HasOwn(Get(payload, k), "link")

Stripped(k) ==
    CASE k = "poolReference" -> "pool"
      [] k = "policiesReference" -> "policies"
      [] k = "profilesReference" -> "profiles"

\* the path and query of a link
PathAndQuery(link) ==
    CASE link = Str(PoolLink) -> "/mgmt/tm/ltm/pool/~Common~p1?ver=13.1.1.2"
      [] link = Str(PoliciesLink) -> "/mgmt/tm/ltm/virtual/~Common~v1/policies?ver=13.1.1.2"

FieldNames(payload) == {Props(payload)[i][1] : i \in 1..Len(Props(payload))}

\* C8: when expand() completes, for every reference field of the payload it
\* was given (its argument, or the response's data without one) it has issued
\* exactly one GET of the link's path and query, and the payload holds the
\* reference field as it was and, under the name without the suffix, the body
\* that GET received.
C8_EveryReferenceExpanded ==
    expanding.pc = "done"
    => \A k \in FieldNames(expanding.before) :
          IsReferenceField(expanding.before, k)
          => LET uri == PathAndQuery(Get(Get(expanding.before, k), "link"))
                 fetches == {j \in 1..Len(expanding.gets) : expanding.gets[j][1] = uri}
             IN  /\ Cardinality(fetches) = 1
                 /\ Get(Expanded, k) = Get(expanding.before, k)
                 /\ HasOwn(Expanded, Stripped(k))
                 /\ \A j \in fetches : Get(Expanded, Stripped(k)) = expanding.gets[j][2]

\* C10: when expand() completes, every top-level field of the payload that is
\* not a reference field has the value it had when expand() was called.
C10_OtherFieldsUntouched ==
    expanding.pc = "done"
    => \A k \in FieldNames(expanding.before) :
          ~IsReferenceField(expanding.before, k)
          => HasOwn(Expanded, k) /\ Get(Expanded, k) = Get(expanding.before, k)

\* C11: getTransactionCommands called out of transaction mode is rejected and
\* issues no request; called in transaction mode it issues one request, a GET
\* of /mgmt/tm/transaction/{id}/commands for the session's id.
C11_CommandsPreconditionAndTarget ==
    [][CalledNow("getTransactionCommands")
       => IF transactionId = Null
          THEN /\ last'.result = "rejected"
               /\ last'.sent = <<>>
               /\ pending' = pending
          ELSE /\ last'.result = "pending"
               /\ Len(last'.sent) = 1
               /\ InFlight(pending') = InFlight(pending) + 1
               /\ last'.sent[1].params.method = "GET"
               /\ last'.sent[1].params.uri
                      = "/mgmt/tm/transaction/" \o IdText(transactionId) \o "/commands"]_vars

\* the error the factory is to throw for a configuration: the first that
\* applies of url missing, url invalid, url ending with "/", user missing,
\* pass missing; "" for a configuration it is to accept
ExpectedConfigurationError(config) ==
    IF Get(config, "url") = Undefined THEN "Bad params, url is missing"
    ELSE IF Get(config, "url") = Str("not a url/") THEN "Bad params, url is invalid"
    ELSE IF Get(config, "url") = Str("https://bigip.example.com/")
    THEN "Bad params, url can NOT end with a /"
    ELSE IF Get(config, "user") = Undefined THEN "Bad params, user is required"
    ELSE IF Get(config, "pass") = Undefined THEN "Bad params, pass is required"
    ELSE ""

\* C12: the factory, called with a configuration whose url is missing, is not
\* a URL or ends with "/", or whose user or pass is missing, throws an Error
\* whose message names the first of these, in that order, returns no object
\* to make clients with, and hands nothing to the transport.
C12_FactoryRejectsBadConfigurations ==
    [][(CalledNow("iControlRest") /\ ExpectedConfigurationError(params) # "")
       => /\ last'.result = "thrown"
          /\ last'.err[1].cls = "Error"
          /\ last'.err[1].message = ExpectedConfigurationError(params)
          /\ last'.value # Api
          /\ session' = "none"
          /\ last'.sent = <<>>
          /\ pending' = NoneInFlight]_vars

\* C12 witness: the factory got as far as its last check and threw there
C12_PassMissingThrown ==
    /\ last.op = "iControlRest" /\ last.result = "thrown"
    /\ last.err[1].message = "Bad params, pass is required"
    /\ session = "none"

StartsWith(s, prefix) == Len(s) >= Len(prefix) /\ SubSeq(s, 1, Len(prefix)) = prefix

NonEmptyString(v) == TypeOf(v) = "string" /\ v[2] # ""

\* C13: a client made by the factory, with client() or transaction(), has a
\* base URL that is absolute and does not end with "/", and a user and a pass
\* that are both non-empty.
C13_HandleHasValidConfiguration ==
    session = "client"
    => /\ TypeOf(Get(params, "url")) = "string"
       /\ StartsWith(Get(params, "url")[2], "http://")
              \/ StartsWith(Get(params, "url")[2], "https://")
       /\ ~EndsWith(Get(params, "url")[2], "/")
       /\ NonEmptyString(Get(params, "user"))
       /\ NonEmptyString(Get(params, "pass"))

\* C14: whenever the transport delivers an outcome for a request in flight,
\* whichever method issued it, the promise of that request is settled with it,
\* resolved or rejected and never left pending by a callback that threw; a
\* response with a status other than 200 whose body has no message field
\* rejects it with an empty message.
C14_EveryDeliveredOutcomeSettles ==
    last.ev = "settle"
    => /\ last.result # "uncaught"
       /\ Len(last.outcome) = 1
       /\ (last.outcome[1].e = Null /\ last.outcome[1].statusCode # Num(200)
              /\ ~HasOwn(last.outcome[1].body, "message"))
          => /\ last.result = "rejected"
             /\ last.err[1].cls = "IControlRestError"
             /\ last.err[1].message = ""

\* C15: a commitTransaction that passes its precondition leaves the session
\* out of transaction mode as it issues its PATCH; the outcome delivered for
\* that PATCH, whichever it is, leaves the session's id as it is; and a
\* beginTransaction called while the PATCH is in flight and the session is out
\* of transaction mode passes its precondition and issues its POST.
C15_CommitLeavesTransactionModeForGood ==
    /\ [][(CalledNow("commitTransaction") /\ transactionId # Null)
          => /\ last'.result = "pending"
             /\ pending'["commitTransaction"] = pending["commitTransaction"] + 1
             /\ transactionId' = Null]_vars
    /\ [][(last'.op = "commitTransaction" /\ last'.ev = "settle")
          => /\ pending'["commitTransaction"] = pending["commitTransaction"] - 1
             /\ transactionId' = transactionId]_vars
    /\ [][(pending["commitTransaction"] > 0 /\ transactionId = Null
              /\ CalledNow("beginTransaction"))
          => /\ last'.result = "pending"
             /\ Len(last'.sent) = 1
             /\ last'.sent[1].params.method = "POST"
             /\ last'.sent[1].params.uri = "/mgmt/tm/transaction"]_vars

\* C15 witness: the PATCH of a commitTransaction has failed, a beginTransaction
\* called before that is in flight, and the session is out of transaction mode
C15_CommitFailedIdNotRestored ==
    /\ last.op = "commitTransaction" /\ last.ev = "settle"
    /\ last.result = "rejected"
    /\ pending["beginTransaction"] > 0
    /\ transactionId = Null

\* C16: a beginTransaction called on a session out of transaction mode while
\* the POST of another is in flight passes its precondition and issues a POST
\* of its own; each creation response, as it is processed, replaces the
\* session's id with the id it carries, so that once both are processed the
\* session is in transaction mode with the id of the one processed last, and
\* holds the other nowhere.
C16_OverlappingBeginsLastResponseWins ==
    /\ [][(transactionId = Null /\ pending["beginTransaction"] > 0
              /\ CalledNow("beginTransaction"))
          => /\ last'.result = "pending"
             /\ Len(last'.sent) = 1
             /\ last'.sent[1].params.method = "POST"
             /\ last'.sent[1].params.uri = "/mgmt/tm/transaction"
             /\ pending'["beginTransaction"] = pending["beginTransaction"] + 1]_vars
    /\ [][(last'.op = "beginTransaction" /\ last'.ev = "settle"
              /\ last'.result = "resolved"
              /\ Get(last'.outcome[1].body, "transId") \in {Num(7), Num(8)})
          => /\ transactionId' = Get(last'.outcome[1].body, "transId")
             /\ transactionId' # Null
             /\ pending'["beginTransaction"] = pending["beginTransaction"] - 1]_vars

\* C16 witness: of two beginTransaction calls that overlapped, the creation
\* response of one has been processed while the POST of the other is in flight
C16_FirstOfTwoProcessed ==
    /\ last.op = "beginTransaction" /\ last.ev = "settle"
    /\ last.result = "resolved"
    /\ pending["beginTransaction"] = 1
    /\ transactionId = Num(7)

\* the URIs of the reference fields of a payload, in the order the fields were
\* added to it
RECURSIVE ReferenceUris(_, _)
ReferenceUris(payload, i) ==
    IF i > Len(Props(payload)) THEN <<>>
    ELSE IF IsReferenceField(payload, Props(payload)[i][1])
    THEN <<PathAndQuery(Get(Props(payload)[i][2], "link"))>>
             \o ReferenceUris(payload, i + 1)
    ELSE ReferenceUris(payload, i + 1)

\* a is b with some of its elements left out
RECURSIVE IsSubsequence(_, _)
IsSubsequence(a, b) ==
    IF a = <<>> THEN TRUE
    ELSE IF b = <<>> THEN FALSE
    ELSE IF Head(a) = Head(b) THEN IsSubsequence(Tail(a), Tail(b))
    ELSE IsSubsequence(a, Tail(b))

\* the j-th GET of the running expand() has been answered and its body is in
\* the payload under the name of its reference field without the suffix
Stored(j) ==
    /\ Len(expanding.gets[j]) = 2
    /\ \E k \in FieldNames(expanding.before) :
          /\ IsReferenceField(expanding.before, k)
          /\ PathAndQuery(Get(Get(expanding.before, k), "link")) = expanding.gets[j][1]
          /\ Get(Expanded, Stripped(k)) = expanding.gets[j][2]

\* C17: within a call of expand(), the GETs are issued in the order the
\* reference fields were added to the payload and one at a time: when a GET is
\* in flight it is the only one and every GET issued before it has been
\* answered and its body stored; expand() completes with none in flight and
\* every GET it issued answered and stored.
C17_ExpandOneAtATimeInOrder ==
    expanding.pc # "idle"
    => /\ IsSubsequence([j \in 1..Len(expanding.gets) |-> expanding.gets[j][1]],
                        ReferenceUris(expanding.before, 1))
       /\ pending["expand"] = IF expanding.pc = "await" THEN 1 ELSE 0
       /\ expanding.pc = "await"
              => /\ Len(expanding.gets) >= 1
                 /\ Len(expanding.gets[Len(expanding.gets)]) = 1
                 /\ \A j \in 1..(Len(expanding.gets) - 1) : Stored(j)
       /\ expanding.pc = "done"
              => \A j \in 1..Len(expanding.gets) : Stored(j)

\* C17 witness: expand() has issued the GET of a second reference field, the
\* body of the first being stored
C17_SecondReferenceRequested ==
    /\ expanding.pc = "await"
    /\ Len(expanding.gets) = 2
    /\ Stored(1)
    /\ pending["expand"] = 1

\* the outcome is a failure of the request: a transport error, or a response
\* with a status other than 200
IsFailure(o) == o.e # Null \/ o.statusCode # Num(200)

\* C18: when a GET issued by expand() fails, expand() is rejected with the
\* error of that GET, issues no further GET, and leaves the payload as it was
\* when the failure arrived: the bodies stored before it in place, the
\* reference fields after it not expanded.
C18_ExpandFailsWithTheFailureOfItsRequest ==
    [][(last'.op = "expand" /\ last'.ev = "settle" /\ IsFailure(last'.outcome[1]))
       => /\ last'.result = "rejected"
          /\ expanding'.pc = "failed"
          /\ last'.err[1].cls = "IControlRestError"
          /\ last'.err[1].message
                 = IF last'.outcome[1].e # Null THEN "ETIMEDOUT"
                   ELSE IF HasOwn(last'.outcome[1].body, "message")
                   THEN Get(last'.outcome[1].body, "message")[2] ELSE ""
          /\ last'.err[1].httpStatus = last'.outcome[1].statusCode
          /\ last'.sent = <<>>
          /\ pending'["expand"] = 0
          /\ expanding'.gets = expanding.gets
          /\ response' = response
          /\ expanding'.data = expanding.data
          /\ \A j \in 1..(Len(expanding.gets) - 1) : Stored(j)]_vars

ComputedKeys == {"method", "url", "auth", "headers", "timeout", "json", "strictSSL", "body"}

\* the value request() computes for an option of the request issued, Undefined
\* for one it does not set; of the headers, whether they are the computed ones
HasComputedValue(k, v) ==
    CASE k = "method" -> v = Str(IssuedParams.method)
      [] k = "url" -> v = Str("https://bigip.example.com" \o IssuedParams.uri)
      [] k = "auth" -> v = Obj(<< <<"user", Str("admin")>>, <<"pass", Str("secret")>> >>)
      [] k = "headers" -> v \in {Obj(<<>>), Obj(<< <<CoordinationHeader, transactionId>> >>)}
      [] k = "timeout" -> v = Num(2000)
      [] k = "json" -> v = Bool(TRUE)
      [] k = "strictSSL" -> v = Bool(FALSE)
      [] k = "body" -> v = IssuedParams.data /\ (v = Undefined <=> ~HasOwn(IssuedOptions, k))
      [] OTHER -> v = Undefined /\ ~HasOwn(IssuedOptions, k)

\* C19: the options handed to the transport are the computed ones overlaid by
\* the options the client was constructed with, key by key: a key of the
\* overlay has the overlay's value, whole (headers of the overlay replace the
\* computed headers, coordination header included); any other key has its
\* computed value, and there are no keys besides.
C19_OverlayLastWriteWins ==
    Issued
    => /\ \A k \in FieldNames(options) : Get(IssuedOptions, k) = Get(options, k)
       /\ \A k \in (ComputedKeys \cup FieldNames(IssuedOptions)) \ FieldNames(options) :
             HasComputedValue(k, Get(IssuedOptions, k))

\* C19 witness: a request that the session's id puts in its transaction went
\* out with the headers of the overlay, the coordination header not among them
C19_OverlayHeadersReplacedComputed ==
    /\ Issued
    /\ HasOwn(options, "headers")
    /\ Truthy(transactionId) /\ IssuedParams.ignoreTransaction # Bool(TRUE)
    /\ Get(IssuedOptions, "headers") = Get(options, "headers")
    /\ ~CarriesCoordinationHeader

\* C20: beginTransaction called out of transaction mode issues one request, a
\* POST of /mgmt/tm/transaction without the coordination header; when the
\* outcome of that POST is a success, beginTransaction resolves with the
\* client and the session is in transaction mode with the id of the response;
\* when it is a failure, beginTransaction is rejected with that failure and
\* the session's id is left as it was, so that a beginTransaction called next
\* on a session still out of transaction mode issues its POST.
C20_BeginSucceedsOrFailsWithItsRequest ==
    /\ [][(transactionId = Null /\ CalledNow("beginTransaction"))
          => /\ last'.result = "pending"
             /\ Len(last'.sent) = 1
             /\ InFlight(pending') = InFlight(pending) + 1
             /\ last'.sent[1].params.method = "POST"
             /\ last'.sent[1].params.uri = "/mgmt/tm/transaction"
             /\ EmptyOverlay
                    => ~HasOwn(Get(last'.sent[1].options, "headers"), CoordinationHeader)
             /\ transactionId' = Null]_vars
    /\ [][(last'.op = "beginTransaction" /\ last'.ev = "settle")
          => IF IsFailure(last'.outcome[1])
             THEN /\ last'.result = "rejected"
                  /\ last'.err[1].cls = "IControlRestError"
                  /\ last'.err[1].httpStatus = last'.outcome[1].statusCode
                  /\ transactionId' = transactionId
             ELSE /\ last'.result = "resolved"
                  /\ last'.value = Client
                  /\ transactionId' = Get(last'.outcome[1].body, "transId")
                  /\ transactionId' # Null]_vars
    /\ [][(last.op = "beginTransaction" /\ last.ev = "settle" /\ last.result = "rejected"
              /\ transactionId = Null /\ CalledNow("beginTransaction"))
          => last'.result = "pending"]_vars

====
